---- MODULE Spec2Model ----
(***************************************************************************)
(* Model of src/source/ffi.rs: the extern "C" trampolines that obs calls   *)
(* with an opaque pointer to a Box<DataWrapper<D>>.                        *)
(*                                                                         *)
(* A trampoline call is two steps of one host thread: the entry (the code  *)
(* up to the call of the trait method F::name) and the exit (the trait     *)
(* method returns or panics, and the rest of the trampoline runs).  The    *)
(* trait method is plugin code: what it returns, whether it panics and     *)
(* what it does to the &mut Option<D> it is given are chosen with \E.      *)
(***************************************************************************)
EXTENDS Integers, FiniteSets, Sequences, TLC

\* ------------------------------------------------------------------ bounds
MaxCaps == 2          \* heap addresses a Box<DataWrapper<D>> can get
MaxInst == 2          \* values of D the plugin constructs in one run
MaxAudio == 2         \* obs_audio_data handles the host passes
SettingsRefs == 2     \* references the host holds on its obs_data_t

Addrs == 1..MaxCaps
Insts == 1..MaxInst
Audios == 1..MaxAudio
U32Vals == {0, 1920}
I64Vals == {0, 5}
EnumProcs == {1, 2}
EnumParams == {1}
MediaStates == {"None", "Playing", "Opening", "Buffering", "Paused", "Stopped", "Ended", "Error"}

VARIABLES
    caps,          \* heap: address -> DataWrapper<D> (alloc, data: 0 is None, i is Some(i))
    torn,          \* instance -> number of times its Drop (teardown) ran
    nextInst,      \* next value of D the plugin will construct
    settingsRefs,  \* reference count of the host's obs_data_t
    frame,         \* thread -> the trampoline call it is in ("idle" when none)
    done,          \* the call that returned last, until the host calls again
    host,          \* "running", or how the process ended
    handles,       \* the handles the host was given and has not passed to destroy
    envelopeOk     \* the host has kept its ordering promises so far

vars == <<caps, torn, nextInst, settingsRefs, frame, done, host, handles, envelopeOk>>

\* ------------------------------------------------------------ return values
Unit == [k |-> "unit", v |-> 0]
Ptr(a) == [k |-> "ptr", v |-> a]
Null == Ptr(0)
U32(n) == [k |-> "u32", v |-> n]
I64(n) == [k |-> "i64", v |-> n]
Bool(b) == [k |-> "bool", v |-> IF b THEN 1 ELSE 0]
NoReturn == [k |-> "none", v |-> 0]

\* MediaState::to_native: the obs_media_state of a MediaState
to_native(s) ==
    CASE s = "None" -> 0 [] s = "Playing" -> 1 [] s = "Opening" -> 2
      [] s = "Buffering" -> 3 [] s = "Paused" -> 4 [] s = "Stopped" -> 5
      [] s = "Ended" -> 6 [] s = "Error" -> 7

Native(s) == [k |-> "state", v |-> to_native(s)]

\* ------------------------------------------------------------- DataWrapper
\* DataWrapper::default(): data: None
DataWrapper_default == [alloc |-> TRUE, data |-> 0, made |-> 0]

\* DataWrapper::from(data) / wrapper.data = Some(data); made remembers the
\* instance create stored
DataWrapper_from(i) == [alloc |-> TRUE, data |-> i, made |-> i]

Freed == [alloc |-> FALSE, data |-> 0, made |-> 0]

\* Box::new / Box::into_raw: the addresses the allocator may return
Box_new_any(cs) == Addrs
Box_new(cs) == {a \in Addrs : ~cs[a].alloc}

\* Drop of Option<D>: the teardown of the stored instance, when there is one
drop_data_none(tn, i) == tn
drop_data(tn, i) == IF i = 0 THEN tn ELSE [tn EXCEPT ![i] = @ + 1]

\* &mut *(data as *mut DataWrapper<D>): a borrow, the heap is as it was when
\* the borrow ends
unwrap_owning(cs, h) == [cs EXCEPT ![h] = Freed]
unwrap_reset(cs, h) == [cs EXCEPT ![h].data = 0]
unwrap(cs, h) == cs

\* DataObj's Drop (obs_data_release), which forget(settings) suppresses
DataObj_drop(refs) == refs - 1

\* ------------------------------------------------------- fault containment
\* catch_unwind(f): Ok(r) when f returned r, Err when f panicked
catch_unwind(panicked, r) == [ok |-> ~panicked, r |-> r]

handle_unwind_with_def_nolog(result, def) ==
    IF result.ok THEN [ret |-> result.r, logs |-> 0]
    ELSE [ret |-> def, logs |-> 0]
handle_unwind_with_def(result, def) ==
    IF result.ok THEN [ret |-> result.r, logs |-> 0]
    ELSE [ret |-> def, logs |-> 1]

handle_unwind(result) == handle_unwind_with_def(result, Unit)

\* ------------------------------------------------------------------- state
Idle == [fn |-> "idle", data |-> 0, settings |-> 0, audio |-> 0, props |-> 0,
         cb |-> 0, param |-> 0]

\* EnumActiveContext {} and EnumAllContext {}: structs without fields, built
\* without the _enum_callback and _param the host passed
EnumActiveContext(cb, param) == [cb |-> 0, param |-> 0]
EnumAllContext(cb, param) == [cb |-> 0, param |-> 0]
NoContext == [cb |-> 0, param |-> 0]

NoCall ==
    [fn |-> "none", data |-> 0, faulted |-> FALSE, outcome |-> "returned",
     ret |-> NoReturn, logs |-> 0, capCalls |-> 0, capRet |-> NoReturn, released |-> 0,
     props |-> 0, propsCreated |-> 0, propsReleased |-> 0, audio |-> 0,
     held |-> 0, made |-> 0, cb |-> 0, param |-> 0, ctx |-> NoContext, cbCalls |-> 0]

\* the host calls from two places: 1 is its main thread, 2 the one it mixes audio on
Threads == {1, 2}

Init ==
    /\ caps = [a \in Addrs |-> Freed]
    /\ torn = [i \in Insts |-> 0]
    /\ nextInst = 1
    /\ settingsRefs = SettingsRefs
    /\ frame = [t \in Threads |-> Idle]
    /\ done = NoCall
    /\ host = "running"
    /\ handles = {}
    /\ envelopeOk = TRUE

\* a panic that reaches the end of an extern "C" fn: the build either aborts
\* at the call (no local is dropped) or unwinds through the frame (locals are
\* dropped) into the host's C frames
Fates == {"aborted", "unwound_into_host"}

\* what the trait method may do with the &mut Option<D> it is given
Effects(h) ==
    IF h = 0 THEN {"keep"}
    ELSE {"keep", "take"} \cup (IF nextInst <= MaxInst THEN {"put"} ELSE {})

\* the heap, the teardown counts and the instance counter after the trait
\* method acted on capsule h
AfterEffect(h, eff) ==
    IF h = 0 \/ eff = "keep" THEN [caps |-> caps, torn |-> torn, nextInst |-> nextInst]
    ELSE IF eff = "take"
    THEN [caps |-> [caps EXCEPT ![h].data = 0],
          torn |-> drop_data(torn, caps[h].data), nextInst |-> nextInst]
    ELSE [caps |-> [caps EXCEPT ![h].data = nextInst],
          torn |-> drop_data(torn, caps[h].data), nextInst |-> nextInst + 1]

\* the host calls a trampoline: the code before the call of the trait method
Enter_locked(t, f) ==
    /\ host = "running"
    /\ frame[t].fn = "idle"
    /\ f.data # 0 => \A u \in Threads \ {t} : frame[u].data # f.data
    /\ f.settings = 1 => settingsRefs > 0
    /\ envelopeOk' = (envelopeOk /\ (f.data = 0 \/ f.data \in handles))
    /\ IF f.data # 0 /\ ~caps[f.data].alloc
       THEN /\ host' = "use_after_free"
            /\ UNCHANGED frame
       ELSE /\ frame' = [frame EXCEPT ![t] = f]
            /\ UNCHANGED host
    /\ done' = NoCall
    /\ UNCHANGED <<caps, torn, nextInst, settingsRefs, handles>>
Enter(t, f) ==
    /\ host = "running"
    /\ frame[t].fn = "idle"
    /\ f.settings = 1 => settingsRefs > 0
    /\ envelopeOk' = (envelopeOk /\ (f.data = 0 \/ f.data \in handles))
    /\ IF f.data # 0 /\ ~caps[f.data].alloc
       THEN /\ host' = "use_after_free"
            /\ UNCHANGED frame
       ELSE /\ frame' = [frame EXCEPT ![t] = f]
            /\ UNCHANGED host
    /\ done' = NoCall
    /\ UNCHANGED <<caps, torn, nextInst, settingsRefs, handles>>

\* the trait method is over and the rest of the trampoline has run: r is what
\* the trampoline did, eff what the trait method did to the capsule
Leave(t, eff, r) ==
    LET h == frame[t].data
        e == AfterEffect(h, eff)
    IN  IF h # 0 /\ ~caps[h].alloc
        THEN /\ host' = "use_after_free"
             /\ UNCHANGED <<caps, torn, nextInst, settingsRefs, frame, done, handles, envelopeOk>>
        ELSE /\ caps' = (IF h = 0 THEN e.caps ELSE unwrap(e.caps, h))
             /\ torn' = e.torn
             /\ nextInst' = e.nextInst
             /\ settingsRefs' = (IF r.released = 1 THEN DataObj_drop(settingsRefs) ELSE settingsRefs)
             /\ frame' = [frame EXCEPT ![t] = Idle]
             /\ host' = r.host
             /\ done' = [fn |-> frame[t].fn, data |-> h, faulted |-> r.faulted,
                         outcome |-> r.outcome, ret |-> r.ret, logs |-> r.logs,
                         capCalls |-> r.capCalls, capRet |-> r.capRet,
                         released |-> r.released,
                         props |-> frame[t].props,
                         propsCreated |-> (IF frame[t].props # 0 THEN 1 ELSE 0),
                         propsReleased |-> r.propsReleased, audio |-> frame[t].audio,
                         held |-> (IF h = 0 THEN 0 ELSE e.caps[h].data), made |-> 0,
                         cb |-> frame[t].cb, param |-> frame[t].param,
                         ctx |-> (CASE frame[t].fn = "enum_active_sources" ->
                                         EnumActiveContext(frame[t].cb, frame[t].param)
                                    [] frame[t].fn = "enum_all_sources" ->
                                         EnumAllContext(frame[t].cb, frame[t].param)
                                    [] OTHER -> NoContext),
                         cbCalls |-> 0]
             /\ UNCHANGED <<handles, envelopeOk>>

\* F::name(&mut wrapper.data): the trait method is called whatever the Option
\* holds; v is what it returns
call_trait_if_some(data, v) ==
    IF data = 0 THEN [calls |-> 0, ret |-> [v EXCEPT !.v = 0], gave |-> v]
    ELSE [calls |-> 1, ret |-> v, gave |-> v]
call_trait(data, v) == [calls |-> 1, ret |-> v, gave |-> v]

\* F::get_name() and F::get_defaults(&mut settings): no capsule is involved
call_static(v) == [calls |-> 1, ret |-> v, gave |-> v]

\* a trampoline without catch_unwind after its trait call c returned
Returned(c) ==
    [outcome |-> "returned", faulted |-> FALSE, ret |-> c.ret, logs |-> 0,
     capCalls |-> c.calls, capRet |-> c.gave,
     released |-> 0, propsReleased |-> 0, host |-> "running"]

\* a trampoline without catch_unwind after its trait method panicked: the
\* panic leaves the extern "C" fn; dropped is 1 when the frame holds a DataObj
Escaped_caught(fate, dropped) ==
    [outcome |-> "returned", faulted |-> TRUE, ret |-> Null, logs |-> 1,
     capCalls |-> 1, capRet |-> NoReturn,
     released |-> dropped, propsReleased |-> 0, host |-> "running"]
Escaped(fate, dropped) ==
    [outcome |-> "propagated", faulted |-> TRUE, ret |-> NoReturn, logs |-> 0,
     capCalls |-> 1, capRet |-> NoReturn,
     released |-> (IF fate = "unwound_into_host" THEN dropped ELSE 0),
     propsReleased |-> 0, host |-> fate]

\* a trampoline whose body is a closure given to handle_unwind(_with_def): c
\* is what the closure did, u what handle_unwind(_with_def) made of its result
Contained(c, u) ==
    [outcome |-> "returned", faulted |-> ~c.result.ok, ret |-> u.ret, logs |-> u.logs,
     capCalls |-> 1, capRet |-> (IF c.result.ok THEN Unit ELSE NoReturn),
     released |-> c.released, propsReleased |-> c.propsReleased, host |-> "running"]

\* ------------------------------------------------------------- trampolines
Call(name, h) ==
    [fn |-> name, data |-> h, settings |-> 0, audio |-> 0, props |-> 0, cb |-> 0, param |-> 0]

get_name(t) ==
    \/ Enter(t, Call("get_name", 0))
    \/ /\ host = "running" /\ frame[t].fn = "get_name"
       /\ \/ Leave(t, "keep", Returned(call_static([k |-> "name", v |-> 1])))
          \/ \E fate \in Fates : Leave(t, "keep", Escaped(fate, 0))

SimpleFns == {"get_width", "get_height", "activate", "deactivate",
              "transition_start", "transition_stop"}

\* what F::name returns, for the names impl_simple_fn! is used on
SimpleRets(name) ==
    IF name \in {"get_width", "get_height"} THEN {U32(n) : n \in U32Vals} ELSE {Unit}

impl_simple_fn(t, name, h) ==
    \/ Enter(t, Call(name, h))
    \/ /\ host = "running" /\ frame[t].fn = name /\ frame[t].data = h
       /\ \E eff \in Effects(h) :
            \/ \E v \in SimpleRets(name) : Leave(t, eff, Returned(call_trait(caps[h].data, v)))
            \/ \E fate \in Fates : Leave(t, eff, Escaped(fate, 0))

create_default_data(t) ==
    /\ host = "running"
    /\ frame[t].fn = "idle"
    /\ \E a \in Box_new(caps) :
         /\ caps' = [caps EXCEPT ![a] = DataWrapper_default]
         /\ handles' = handles \cup {a}
         /\ done' = [NoCall EXCEPT !.fn = "create_default_data", !.ret = Ptr(a)]
    /\ UNCHANGED <<torn, nextInst, settingsRefs, frame, host, envelopeOk>>

create(t) ==
    \/ /\ nextInst <= MaxInst
       /\ Box_new(caps) # {}
       /\ Enter(t, [Call("create", 0) EXCEPT !.settings = 1])
    \/ /\ host = "running" /\ frame[t].fn = "create"
       /\ \/ /\ nextInst <= MaxInst
             /\ \E a \in Box_new(caps) :
                  /\ caps' = [caps EXCEPT ![a] = DataWrapper_from(nextInst)]
                  /\ nextInst' = nextInst + 1
                  /\ handles' = handles \cup {a}
                  /\ frame' = [frame EXCEPT ![t] = Idle]
                  /\ done' = [NoCall EXCEPT !.fn = "create", !.ret = Ptr(a), !.capCalls = 1,
                                            !.held = nextInst, !.made = nextInst]
                  /\ UNCHANGED <<torn, settingsRefs, host, envelopeOk>>
          \/ \E fate \in Fates : Leave(t, "keep", Escaped(fate, 1))

\* freeing a capsule that is not allocated is a double free; freeing one that
\* a running trait method holds a &mut into leaves that reference dangling
destroy(t, h) ==
    /\ host = "running"
    /\ frame[t].fn = "idle"
    /\ envelopeOk' = (envelopeOk /\ h \in handles /\ \A u \in Threads : frame[u].data # h)
    /\ handles' = handles \ {h}
    /\ IF ~caps[h].alloc
       THEN /\ host' = "double_free"
            /\ done' = NoCall
            /\ UNCHANGED <<caps, torn>>
       ELSE /\ caps' = [caps EXCEPT ![h] = Freed]
            /\ torn' = drop_data(torn, caps[h].data)
            /\ \E panicked \in (IF caps[h].data = 0 THEN {FALSE} ELSE BOOLEAN) :
                 \E fate \in (IF panicked THEN Fates ELSE {"running"}) :
                   /\ host' = (IF \E u \in Threads : frame[u].data = h
                               THEN "use_after_free" ELSE fate)
                   /\ done' = [NoCall EXCEPT !.fn = "destroy", !.data = h, !.ret = Unit,
                                 !.faulted = panicked,
                                 !.outcome = IF panicked THEN "propagated" ELSE "returned",
                                 !.held = caps[h].data, !.made = caps[h].made]
    /\ UNCHANGED <<nextInst, settingsRefs, frame>>

\* ---------------------------------------- trampolines under handle_unwind
\* the closure of update: forget(settings) is reached when F::update returns;
\* a panic unwinds through the closure and drops settings
update_closure(panicked) ==
    [result |-> catch_unwind(panicked, Unit),
     released |-> (IF panicked THEN 1 ELSE 0), propsReleased |-> 0]

\* a closure that wraps nothing it would have to release and returns ()
unit_closure(panicked) ==
    [result |-> catch_unwind(panicked, Unit), released |-> 0, propsReleased |-> 0]

\* the closure of audio_render: true after F::audio_render
audio_render_closure_false(panicked) ==
    [result |-> catch_unwind(panicked, Bool(FALSE)), released |-> 0, propsReleased |-> 0]
audio_render_closure(panicked) ==
    [result |-> catch_unwind(panicked, Bool(TRUE)), released |-> 0, propsReleased |-> 0]

\* obs_properties_create(): a new properties object, named by the calling thread
obs_properties_create(t) == t

\* Properties::into_raw: the pointer, the wrapper releases nothing
Properties_into_raw(p) == [ptr |-> Ptr(p), released |-> 0]

\* Properties' Drop: obs_properties_destroy, once
Properties_drop(p) == [ptr |-> Null, released |-> 1]

\* the closure of get_properties: into_raw when F::get_properties returns; a
\* panic unwinds through the closure and drops properties
get_properties_closure_leak(p, panicked) ==
    [result |-> catch_unwind(panicked, Properties_into_raw(p).ptr),
     released |-> 0, propsReleased |-> Properties_into_raw(p).released]
get_properties_closure_as_ptr(p, panicked) ==
    [result |-> catch_unwind(panicked, Ptr(p)),
     released |-> 0, propsReleased |-> Properties_drop(p).released]
get_properties_closure(p, panicked) ==
    [result |-> catch_unwind(panicked, Properties_into_raw(p).ptr),
     released |-> 0,
     propsReleased |-> (IF panicked THEN Properties_drop(p).released
                        ELSE Properties_into_raw(p).released)]

\* the closure of filter_audio: the audio pointer it was called with
filter_audio_closure_null(audio, panicked) ==
    [result |-> catch_unwind(panicked, Null), released |-> 0, propsReleased |-> 0]
filter_audio_closure(audio, panicked) ==
    [result |-> catch_unwind(panicked, Ptr(audio)), released |-> 0, propsReleased |-> 0]

update(t, h) ==
    \/ Enter(t, [Call("update", h) EXCEPT !.settings = 1])
    \/ /\ host = "running" /\ frame[t].fn = "update" /\ frame[t].data = h
       /\ \E eff \in Effects(h), panicked \in BOOLEAN :
            Leave(t, eff, Contained(update_closure(panicked),
                                    handle_unwind(update_closure(panicked).result)))

video_render(t, h) ==
    \/ Enter(t, Call("video_render", h))
    \/ /\ host = "running" /\ frame[t].fn = "video_render" /\ frame[t].data = h
       /\ \E eff \in Effects(h), panicked \in BOOLEAN :
            Leave(t, eff, Contained(unit_closure(panicked),
                                    handle_unwind(unit_closure(panicked).result)))

audio_render(t, h) ==
    \/ Enter(t, Call("audio_render", h))
    \/ /\ host = "running" /\ frame[t].fn = "audio_render" /\ frame[t].data = h
       /\ \E eff \in Effects(h), panicked \in BOOLEAN :
            Leave(t, eff, Contained(audio_render_closure(panicked),
                 handle_unwind_with_def(audio_render_closure(panicked).result, Bool(TRUE))))

get_properties(t, h) ==
    \/ Enter(t, [Call("get_properties", h) EXCEPT !.props = obs_properties_create(t)])
    \/ /\ host = "running" /\ frame[t].fn = "get_properties" /\ frame[t].data = h
       /\ \E eff \in Effects(h), panicked \in BOOLEAN :
            Leave(t, eff, Contained(get_properties_closure(frame[t].props, panicked),
                 handle_unwind_with_def(get_properties_closure(frame[t].props, panicked).result,
                                        Null)))

enum_active_sources(t, h, cb, param) ==
    \/ Enter(t, [Call("enum_active_sources", h) EXCEPT !.cb = cb, !.param = param])
    \/ /\ host = "running" /\ frame[t].fn = "enum_active_sources" /\ frame[t].data = h
       /\ frame[t].cb = cb /\ frame[t].param = param
       /\ \E eff \in Effects(h), panicked \in BOOLEAN :
            Leave(t, eff, Contained(unit_closure(panicked),
                                    handle_unwind(unit_closure(panicked).result)))

enum_all_sources(t, h, cb, param) ==
    \/ Enter(t, [Call("enum_all_sources", h) EXCEPT !.cb = cb, !.param = param])
    \/ /\ host = "running" /\ frame[t].fn = "enum_all_sources" /\ frame[t].data = h
       /\ frame[t].cb = cb /\ frame[t].param = param
       /\ \E eff \in Effects(h), panicked \in BOOLEAN :
            Leave(t, eff, Contained(unit_closure(panicked),
                                    handle_unwind(unit_closure(panicked).result)))

video_tick(t, h) ==
    \/ Enter(t, Call("video_tick", h))
    \/ /\ host = "running" /\ frame[t].fn = "video_tick" /\ frame[t].data = h
       /\ \E eff \in Effects(h), panicked \in BOOLEAN :
            Leave(t, eff, Contained(unit_closure(panicked),
                                    handle_unwind(unit_closure(panicked).result)))

filter_audio(t, h, audio) ==
    \/ Enter(t, [Call("filter_audio", h) EXCEPT !.audio = audio])
    \/ /\ host = "running" /\ frame[t].fn = "filter_audio" /\ frame[t].data = h
       /\ frame[t].audio = audio
       /\ \E eff \in Effects(h), panicked \in BOOLEAN :
            Leave(t, eff, Contained(filter_audio_closure(audio, panicked),
                 handle_unwind_with_def(filter_audio_closure(audio, panicked).result, Null)))

\* ------------------------------------------------------- media trampolines
media_play_pause(t, h) ==
    \/ Enter(t, Call("media_play_pause", h))
    \/ /\ host = "running" /\ frame[t].fn = "media_play_pause" /\ frame[t].data = h
       /\ \E eff \in Effects(h) :
            \/ Leave(t, eff, Returned(call_trait(caps[h].data, Unit)))
            \/ \E fate \in Fates : Leave(t, eff, Escaped(fate, 0))

media_get_state(t, h) ==
    \/ Enter(t, Call("media_get_state", h))
    \/ /\ host = "running" /\ frame[t].fn = "media_get_state" /\ frame[t].data = h
       /\ \E eff \in Effects(h) :
            \/ \E s \in MediaStates : Leave(t, eff, Returned(call_trait(caps[h].data, Native(s))))
            \/ \E fate \in Fates : Leave(t, eff, Escaped(fate, 0))

MediaFns == {"media_stop", "media_restart", "media_next", "media_previous",
             "media_get_duration", "media_get_time"}

\* what F::name returns, for the names impl_media! is used on
MediaRets(name) ==
    IF name \in {"media_get_duration", "media_get_time"} THEN {I64(n) : n \in I64Vals}
    ELSE {Unit}

impl_media(t, name, h) ==
    \/ Enter(t, Call(name, h))
    \/ /\ host = "running" /\ frame[t].fn = name /\ frame[t].data = h
       /\ \E eff \in Effects(h) :
            \/ \E v \in MediaRets(name) : Leave(t, eff, Returned(call_trait(caps[h].data, v)))
            \/ \E fate \in Fates : Leave(t, eff, Escaped(fate, 0))

get_defaults(t) ==
    \/ Enter(t, [Call("get_defaults", 0) EXCEPT !.settings = 1])
    \/ /\ host = "running" /\ frame[t].fn = "get_defaults"
       /\ \/ Leave(t, "keep", Returned(call_static(Unit)))
          \/ \E fate \in Fates : Leave(t, "keep", Escaped(fate, 1))

\* ----------------------------------------------------------- specifications
\* the thread obs mixes audio on
AudioThread(t) == \E h \in Addrs : audio_render(t, h)

\* the thread obs does everything else on
MainThread(t) ==
    \/ get_name(t)
    \/ \E name \in SimpleFns, h \in Addrs : impl_simple_fn(t, name, h)
    \/ create_default_data(t)
    \/ create(t)
    \/ \E h \in Addrs : destroy(t, h)
    \/ \E h \in Addrs : update(t, h)
    \/ \E h \in Addrs : video_render(t, h)
    \/ \E h \in Addrs : audio_render(t, h)
    \/ \E h \in Addrs : get_properties(t, h)
    \/ \E h \in Addrs, cb \in EnumProcs, param \in EnumParams : enum_active_sources(t, h, cb, param)
    \/ \E h \in Addrs, cb \in EnumProcs, param \in EnumParams : enum_all_sources(t, h, cb, param)
    \/ \E h \in Addrs : video_tick(t, h)
    \/ \E h \in Addrs, audio \in Audios : filter_audio(t, h, audio)
    \/ \E h \in Addrs : media_play_pause(t, h)
    \/ \E h \in Addrs : media_get_state(t, h)
    \/ \E name \in MediaFns, h \in Addrs : impl_media(t, name, h)
    \/ get_defaults(t)

Next == MainThread(1)

NextConc == MainThread(1) \/ AudioThread(2)

\* the main thread alone calls the trampolines
Spec == Init /\ [][Next]_vars

\* the audio thread calls audio_render while the main thread calls the rest
SpecConc == Init /\ [][NextConc]_vars

\* create, update and destroy alone, from one thread
NextLifecycle ==
    \/ create(1)
    \/ \E h \in Addrs : update(1, h)
    \/ \E h \in Addrs : destroy(1, h)

SpecLifecycle == Init /\ [][NextLifecycle]_vars

\* ------------------------------------------------------------------- claims
Wrapped == {"update", "video_render", "audio_render", "get_properties",
            "enum_active_sources", "enum_all_sources", "video_tick", "filter_audio"}

\* C1: when the trait method of get_width or get_height panics, the panic
\* stays inside the trampoline and the trampoline returns 0.
C1_SizeFaultContained ==
    (done.fn \in {"get_width", "get_height"} /\ done.faulted)
        => (done.outcome = "returned" /\ done.ret = U32(0) /\ host = "running")

\* C2: a panic of the trait method leaves the trampoline exactly in create,
\* destroy, get_name, the media_* trampolines and get_defaults; in every
\* other trampoline it is caught and the trampoline returns to the host.
C2_UncontainedExactly ==
    done.faulted =>
        (done.outcome = "propagated"
            <=> done.fn \in ({"create", "destroy", "get_name", "media_play_pause",
                              "media_get_state", "get_defaults"} \cup MediaFns))

\* C3: a trampoline under handle_unwind / handle_unwind_with_def returns the
\* closure's value and logs nothing when the trait method returns, and
\* returns the default and logs exactly once, without letting the panic out,
\* when the trait method panics.
C3_HandleUnwind ==
    done.fn \in Wrapped =>
        /\ done.outcome = "returned"
        /\ ~done.faulted =>
             /\ done.logs = 0
             /\ done.ret = (CASE done.fn = "audio_render" -> Bool(TRUE)
                              [] done.fn = "get_properties" -> Ptr(done.props)
                              [] done.fn = "filter_audio" -> Ptr(done.audio)
                              [] OTHER -> Unit)
        /\ done.faulted =>
             /\ done.logs = 1
             /\ done.ret = (CASE done.fn = "audio_render" -> Bool(TRUE)
                              [] done.fn \in {"get_properties", "filter_audio"} -> Null
                              [] OTHER -> Unit)

C3_Witness == done.fn = "video_tick" /\ done.faulted /\ done.logs = 1

\* C4: create, update and get_defaults never release the host's settings
\* through the wrapper they build, whether the trait method returns or
\* panics (stated for the calls after which the host still runs).
C4_SettingsNeverReleased ==
    (done.fn \in {"create", "update", "get_defaults"} /\ host = "running")
        => done.released = 0

\* C5 as stated: in create, update*, destroy on one handle the teardown of the
\* instance create made does not run before destroy, runs exactly once, and
\* the capsule is freed by destroy.
C5_TeardownOnlyInDestroy ==
    envelopeOk =>
        /\ \A h \in Addrs :
             (caps[h].alloc /\ caps[h].made # 0) => torn[caps[h].made] = 0
        /\ (done.fn = "destroy" /\ done.outcome = "returned") =>
             (~caps[done.data].alloc /\ torn[done.made] = 1)

\* C5 as amended: no instance is torn down twice; while the capsule holds the
\* instance create made, that instance has not been torn down (so it is torn
\* down before destroy only when the trait method of update took it out of
\* the capsule or replaced it); destroy frees the capsule and tears down the
\* instance the capsule holds exactly once.
C5_TeardownOnce ==
    envelopeOk =>
        /\ \A i \in Insts : torn[i] <= 1
        /\ \A h \in Addrs :
             (caps[h].alloc /\ caps[h].made # 0 /\ caps[h].data = caps[h].made)
                => torn[caps[h].made] = 0
        /\ (done.fn = "destroy" /\ done.outcome = "returned") =>
             /\ ~caps[done.data].alloc
             /\ done.held # 0 => torn[done.held] = 1

C5_Witness ==
    /\ done.fn = "destroy" /\ done.outcome = "returned" /\ envelopeOk
    /\ done.made # 0 /\ done.held = done.made /\ torn[done.made] = 1

\* C6: while the host keeps its ordering promises, no trampoline touches a
\* freed capsule and no capsule is freed twice.
C6_NoUseAfterFree == envelopeOk => host \notin {"use_after_free", "double_free"}

C6_Witness ==
    /\ envelopeOk /\ host = "running"
    /\ done.fn = "destroy" /\ done.outcome = "returned"
    /\ frame[2].fn = "audio_render"

\* C7: when the trait method of get_properties panics, the trampoline returns
\* null and the properties object it created is released exactly once and
\* not given to the host.
C7_PropertiesFault ==
    (done.fn = "get_properties" /\ done.faulted) =>
        /\ done.outcome = "returned"
        /\ done.ret = Null
        /\ done.propsCreated = 1
        /\ done.propsReleased = 1

C7_Witness == done.fn = "get_properties" /\ done.faulted /\ done.props # 0

\* C8: when the trait method of get_properties returns, the trampoline has
\* created one properties object, returns the pointer of that object and
\* has not released it.
C8_PropertiesForwarded ==
    (done.fn = "get_properties" /\ ~done.faulted) =>
        /\ done.propsCreated = 1
        /\ done.props # 0
        /\ done.ret = Ptr(done.props)
        /\ done.propsReleased = 0

C8_Witness == done.fn = "get_properties" /\ ~done.faulted /\ done.ret # Null

\* C9: filter_audio returns the audio pointer it was called with when the
\* trait method returns, and null when it panics.
C9_FilterAudio ==
    done.fn = "filter_audio" =>
        /\ done.outcome = "returned"
        /\ ~done.faulted => done.ret = Ptr(done.audio)
        /\ done.faulted => done.ret = Null

C9_Witness ==
    /\ done.fn = "filter_audio" /\ ~done.faulted
    /\ done.audio = MaxAudio /\ done.ret = Ptr(MaxAudio)

\* C10: create_default_data returns a capsule that was not allocated before,
\* holds None, and runs no trait method; create returns a capsule that was
\* not allocated before and holds the instance F::create returned.
C10_FreshCapsule ==
    [][/\ create_default_data(1) =>
            /\ ~caps[done'.ret.v].alloc
            /\ caps'[done'.ret.v].alloc
            /\ caps'[done'.ret.v].data = 0
            /\ done'.capCalls = 0
            /\ nextInst' = nextInst /\ torn' = torn
            /\ \A a \in Addrs \ {done'.ret.v} : caps'[a] = caps[a]
       /\ (frame[1].fn = "create" /\ frame'[1].fn = "idle" /\ done'.outcome = "returned") =>
            /\ ~caps[done'.ret.v].alloc
            /\ caps'[done'.ret.v].alloc
            /\ caps'[done'.ret.v].data = nextInst
            /\ done'.capCalls = 1
            /\ \A a \in Addrs \ {done'.ret.v} : caps'[a] = caps[a]]_vars

C10_Witness ==
    /\ done.fn = "create" /\ done.outcome = "returned"
    /\ \E a \in Addrs : a # done.ret.v /\ caps[a].alloc /\ caps[a].data = 0
    /\ caps[done.ret.v].data # 0

\* C11: when F::create panics, the panic leaves create, the host gets no
\* handle, and the heap holds the capsules it held before the call.
C11_CreateFaultEscapes ==
    [][(frame[1].fn = "create" /\ frame'[1].fn = "idle" /\ done'.faulted) =>
            /\ done'.outcome = "propagated"
            /\ host' \in Fates
            /\ done'.ret = NoReturn
            /\ handles' = handles
            /\ caps' = caps]_vars

C11_Witness ==
    /\ done.fn = "create" /\ done.faulted /\ done.outcome = "propagated"
    /\ \E a \in Addrs : caps[a].alloc

InstanceFns == SimpleFns \cup Wrapped \cup MediaFns \cup {"media_play_pause", "media_get_state"}

\* C12: every trampoline that takes the capsule calls its trait method once
\* per call, whether the capsule holds None or Some, and the trampolines that
\* hand the trait method's value to the host return that value as it is.
C12_AlwaysDispatches ==
    done.fn \in InstanceFns =>
        /\ done.data # 0
        /\ done.capCalls = 1
        /\ (done.fn \in {"get_width", "get_height", "media_get_duration", "media_get_time",
                         "media_get_state"} /\ ~done.faulted) => done.ret = done.capRet

\* get_width on a capsule of create_default_data, no D ever constructed
C12_Witness ==
    /\ done.fn = "get_width" /\ done.ret = U32(1920) /\ done.capCalls = 1
    /\ nextInst = 1 /\ caps[done.data].alloc /\ caps[done.data].data = 0

\* C13: after a panic caught in a trampoline under handle_unwind the capsule
\* is still allocated and holds what the trait method left in it, the next
\* call on the handle reaches its trait method, no instance is torn down
\* twice, and destroy tears down the instance the capsule holds once.
C13_FaultLeavesCapsule ==
    /\ (done.fn \in Wrapped /\ done.faulted) =>
          /\ caps[done.data].alloc
          /\ caps[done.data].data = done.held
          /\ ENABLED (video_tick(1, done.data) /\ frame'[1].fn = "video_tick")
    /\ envelopeOk =>
          /\ \A i \in Insts : torn[i] <= 1
          /\ (done.fn = "destroy" /\ done.held # 0) => torn[done.held] = 1

\* the trait method replaced the instance and then panicked
C13_Witness ==
    /\ done.fn = "update" /\ done.faulted /\ done.outcome = "returned"
    /\ done.held # 0 /\ caps[done.data].made # 0 /\ done.held # caps[done.data].made
    /\ caps[done.data].data = done.held

\* C14: a call on a capsule never waits for a call another thread has in
\* progress on the same capsule: it enters its trait method while the other
\* is in its own, and each of the two returns without the other moving.
C14_NoLock ==
    \A h \in Addrs :
        (host = "running" /\ caps[h].alloc) =>
            /\ (frame[2].data = h /\ frame[1].fn = "idle") =>
                  ENABLED (video_render(1, h) /\ frame'[1].fn = "video_render")
            /\ (frame[1].data = h /\ frame[2].fn = "idle") =>
                  ENABLED (audio_render(2, h) /\ frame'[2].fn = "audio_render")
            /\ (frame[1].data = h /\ frame[2].data = h) =>
                  /\ ENABLED (AudioThread(2) /\ frame'[2].fn = "idle" /\ frame'[1] = frame[1])
                  /\ ENABLED (MainThread(1) /\ frame'[1].fn = "idle" /\ frame'[2] = frame[2])

C14_Witness ==
    /\ host = "running"
    /\ frame[1].fn = "video_render" /\ frame[2].fn = "audio_render"
    /\ frame[1].data = frame[2].data /\ caps[frame[1].data].data # 0

\* C15: enum_active_sources and enum_all_sources give the trait method the
\* host's enumeration callback and its parameter through the context they
\* build, and do not call the callback themselves.
C15_CallbackForwarded ==
    done.fn \in {"enum_active_sources", "enum_all_sources"} =>
        /\ done.ctx.cb = done.cb
        /\ done.ctx.param = done.param
        /\ done.cbCalls = 0

\* C16: audio_render returns true to the host whether F::audio_render
\* returned or panicked, and whatever it did to the capsule.
C16_AudioRenderTrue ==
    done.fn = "audio_render" => (done.outcome = "returned" /\ done.ret = Bool(TRUE))

C16_Witness ==
    /\ done.fn = "audio_render" /\ done.faulted /\ done.ret = Bool(TRUE)
    /\ caps[done.data].made # 0 /\ caps[done.data].data = 0

\* the capsules on the heap
Allocated(cs) == {a \in Addrs : cs[a].alloc}

\* C17: the set of allocated capsules changes only in create_default_data and
\* create, which add the one capsule they return, and in destroy, which
\* removes the one it is given; every other trampoline leaves the set as it
\* is, whether its trait method returns or panics, and get_name and
\* get_defaults have no capsule and change none.
C17_AllocationFrame ==
    [][/\ Allocated(caps') # Allocated(caps) =>
            \/ /\ done'.fn \in {"create_default_data", "create"}
               /\ done'.outcome = "returned"
               /\ \E a \in Addrs \ Allocated(caps) :
                     /\ Allocated(caps') = Allocated(caps) \cup {a}
                     /\ done'.ret = Ptr(a)
            \/ /\ done'.fn = "destroy"
               /\ done'.data \in Allocated(caps)
               /\ Allocated(caps') = Allocated(caps) \ {done'.data}
       /\ create_default_data(1) =>
            Cardinality(Allocated(caps')) = Cardinality(Allocated(caps)) + 1
       /\ (frame[1].fn = "create" /\ frame'[1].fn = "idle" /\ done'.outcome = "returned") =>
            Cardinality(Allocated(caps')) = Cardinality(Allocated(caps)) + 1
       /\ \A h \in Allocated(caps) :
            destroy(1, h) => Cardinality(Allocated(caps')) = Cardinality(Allocated(caps)) - 1
       /\ frame[1].fn \in {"get_name", "get_defaults"} =>
            (frame[1].data = 0 /\ caps' = caps)]_vars

C17_Witness ==
    /\ done.fn = "video_tick" /\ done.faulted
    /\ done.held # caps[done.data].made
    /\ Cardinality(Allocated(caps)) = 2

\* C18: destroy frees the capsule; when the capsule holds None no teardown
\* runs, when it holds an instance that instance's teardown runs once; no
\* trait method is called, and a panic of the teardown leaves destroy.
C18_DestroyTeardown ==
    [][\A h \in Allocated(caps) :
          destroy(1, h) =>
             /\ ~caps'[h].alloc
             /\ caps[h].data = 0 =>
                   (torn' = torn /\ ~done'.faulted /\ done'.outcome = "returned")
             /\ caps[h].data # 0 =>
                   (torn[caps[h].data] = 0 /\ torn' = [torn EXCEPT ![caps[h].data] = 1])
             /\ done'.capCalls = 0
             /\ nextInst' = nextInst
             /\ done'.faulted =>
                   (done'.outcome = "propagated" /\ done'.logs = 0 /\ host' # "running")]_vars

\* destroy of a capsule create filled and a trait method emptied
C18_Witness ==
    /\ done.fn = "destroy" /\ done.outcome = "returned"
    /\ done.held = 0 /\ done.made # 0 /\ torn[done.made] = 1
    /\ ~caps[done.data].alloc

====
